---------------------------- MODULE Spec2Model ----------------------------
(***************************************************************************)
(* Model of examples/Improving_embeddings_with_signal_processing.ipynb:    *)
(* the sliding-window segmenter split_text, the short-time transform       *)
(* get_fft / lowpass_filter / fft_to_embedding, and the batch pipeline of  *)
(* the notebook's cells.                                                   *)
(*                                                                         *)
(* Three specifications share the variables:                               *)
(*   SpecSplit     one call of split_text on a drawn input;                *)
(*   SpecTransform get_fft, lowpass_filter, fft_to_embedding and the mean  *)
(*                 on one drawn embedding matrix;                          *)
(*   Spec          the notebook's cells run on a drawn corpus.             *)
(***************************************************************************)
EXTENDS Integers, Sequences, FiniteSets, TLC

VARIABLES
    pc,                 \* position of the run
    \* ---- one call of split_text
    text, segment_length, overlap_percent, result,
    \* ---- the transform on one embedding matrix
    embedding,          \* the N x D matrix of one document
    fft,                \* get_fft(embedding), the array handed to the filter
    cutoff,             \* the cutoff handed to lowpass_filter, in quarters
    filtered,           \* what lowpass_filter returned
    restored,           \* what fft_to_embedding returned
    average,            \* np.mean(restored, axis=0)
    \* ---- the notebook's cells
    all_docs, all_labels,
    apply_lowpass,
    all_docs_paras,
    all_embeddings_paras,
    all_embeddings_paras_fft,
    all_embeddings_paras_lowpass,
    train_embeddings_lowpass_avg,
    provider,           \* the embedding provider's answer, by chunk size
    provider_calls,     \* each call made to the provider: the texts sent and
                        \* the document they are the chunks of (0: the whole
                        \* corpus, one text per document)
    error               \* the exception that ended the run, if any

splitVars == <<text, segment_length, overlap_percent, result>>
transformVars == <<embedding, fft, cutoff, filtered, restored, average>>
corpusVars == <<all_docs, all_labels, apply_lowpass, provider>>
listVars == <<all_docs_paras, all_embeddings_paras, all_embeddings_paras_fft,
              all_embeddings_paras_lowpass, train_embeddings_lowpass_avg>>
vars == <<pc, splitVars, transformVars, corpusVars, listVars,
          provider_calls, error>>

Min(a, b) == IF a <= b THEN a ELSE b

(***************************************************************************)
(* Bounds of the model.                                                    *)
(***************************************************************************)
MaxTextLen == 6          \* characters of a drawn text
MaxSegmentLength == 3    \* largest drawn segment_length
MaxChunks == 2           \* rows N of a drawn embedding matrix
MaxDim == 2              \* columns D of a drawn embedding matrix
MaxDocs == 2             \* documents of a drawn corpus
MaxDocChunks == 2        \* chunks of the longest drawn document

(***************************************************************************)
(* Python values.  A text is a sequence of one-character strings; a value  *)
(* that is not a str is tagged "none".  A number carries its Python type.  *)
(* A float is given in quarters (q stands for q/4): quarters, and their    *)
(* products with small integers, are exact in binary floating point, so    *)
(* the float arithmetic of the code is exact on them.                      *)
(***************************************************************************)
Chars == {"a", "b", " ", "\n"}
Whitespace == {" ", "\n"}

Texts == UNION {[1..n -> Chars] : n \in 0..MaxTextLen}
TextValues == {[kind |-> "str", chars |-> t] : t \in Texts}
                  \cup {[kind |-> "none", chars |-> <<>>]}

SegmentLengthValues == {[kind |-> "int", v |-> n] : n \in -1..MaxSegmentLength}
                          \cup {[kind |-> "float", v |-> 2]}

\* floats -0.25, 0.0, 0.25, ..., 1.25 and the ints 0 and 1
OverlapValues == {[kind |-> "float", q |-> k] : k \in -1..5}
                    \cup {[kind |-> "int", q |-> 0], [kind |-> "int", q |-> 4]}

\* int(x) of the float q/4: truncation toward zero
PyIntQuarters(q) == IF q >= 0 THEN q \div 4 ELSE -((-q) \div 4)

(***************************************************************************)
(* str.split(): the maximal runs of non-whitespace characters, in order.   *)
(***************************************************************************)
RECURSIVE StrSplit(_)
\* the text is split by halves: the words of the left half, then those of the
\* right half, the last word of the left and the first of the right being one
\* word when no whitespace stands between them
StrSplit(chars) ==
    IF Len(chars) = 0 THEN <<>>
    ELSE IF Len(chars) = 1
         THEN (IF chars[1] \in Whitespace THEN <<>> ELSE <<chars>>)
    ELSE LET h == Len(chars) \div 2
             left == StrSplit(SubSeq(chars, 1, h))
             right == StrSplit(SubSeq(chars, h + 1, Len(chars)))
         IN  IF chars[h] \notin Whitespace /\ chars[h + 1] \notin Whitespace
             THEN SubSeq(left, 1, Len(left) - 1)
                     \o <<left[Len(left)] \o right[1]>>
                     \o Tail(right)
             ELSE left \o right

\* " ".join(ws); the list is joined by halves
RECURSIVE StrJoin(_)
StrJoin(ws) ==
    IF ws = <<>> THEN <<>>
    ELSE IF Len(ws) = 1 THEN ws[1]
    ELSE LET h == Len(ws) \div 2
         IN  StrJoin(SubSeq(ws, 1, h)) \o <<" ">>
                \o StrJoin(SubSeq(ws, h + 1, Len(ws)))

\* seq[lo:hi] for 0 <= lo <= hi
PySlice(seq, lo, hi) == SubSeq(seq, lo + 1, Min(hi, Len(seq)))

(***************************************************************************)
(* range(0, stop, step): raises ValueError when step is 0; otherwise the   *)
(* values 0, step, 2*step, ... below stop (none when step < 0 <= stop).    *)
(***************************************************************************)
\* a loop that tests i < stop before it looks at the step
RangeRaisesNonEmptyOnly(stop, step) == step = 0 /\ stop > 0

RangeRaises(stop, step) == step = 0

\* the last, partial stride left out
RangeValuesFloor(stop, step) ==
    IF step <= 0 \/ stop <= 0 THEN <<>>
    ELSE [k \in 1..(stop \div step) |-> (k - 1) * step]

RangeValues(stop, step) ==
    IF step <= 0 \/ stop <= 0 THEN <<>>
    ELSE [k \in 1..((stop + step - 1) \div step) |-> (k - 1) * step]

(***************************************************************************)
(* split_text.  The result records how the call ended: outcome "ok" with   *)
(* the returned segments, or the exception raised and the place that       *)
(* raised it; didSplit tells whether text.split() had run by then.         *)
(***************************************************************************)
Raise(exc, site, split) ==
    [outcome |-> exc, site |-> site, didSplit |-> split, segments |-> <<>>]

TextIsValid(t) == t.kind = "str"

SegmentLengthIsValid(s) == s.kind = "int" /\ s.v > 0

\* the check of the upper end left out
OverlapIsValidNoUpper(o) == o.kind = "float" /\ ~(o.q < 0)

OverlapIsValid(o) == o.kind = "float" /\ ~(o.q < 0) /\ ~(o.q > 4)

\* skip = int(segment_length * (1 - overlap_percent))
Skip(s, o) == PyIntQuarters(s.v * (4 - o.q))

SegmentsOf(words, s, skip) ==
    LET starts == RangeValues(Len(words), skip)
    IN  [k \in 1..Len(starts) |->
            StrJoin(PySlice(words, starts[k], starts[k] + s.v))]

split_text(t, s, o) ==
    IF ~TextIsValid(t) THEN Raise("TypeError", "validation", FALSE)
    ELSE IF ~SegmentLengthIsValid(s) THEN Raise("ValueError", "validation", FALSE)
    ELSE IF ~OverlapIsValid(o) THEN Raise("ValueError", "validation", FALSE)
    ELSE LET words == StrSplit(t.chars)
             skip == Skip(s, o)
         IN  IF RangeRaises(Len(words), skip)
             THEN Raise("ValueError", "range", TRUE)
             ELSE [outcome |-> "ok", site |-> "return", didSplit |-> TRUE,
                   segments |-> SegmentsOf(words, s, skip)]

NoResult == [outcome |-> "none", site |-> "none", didSplit |-> FALSE,
             segments |-> <<>>]

(***************************************************************************)
(* SpecSplit: one call of split_text.                                      *)
(***************************************************************************)
SplitIdle ==
    /\ text = [kind |-> "none", chars |-> <<>>]
    /\ segment_length = [kind |-> "int", v |-> 0]
    /\ overlap_percent = [kind |-> "float", q |-> 0]
    /\ result = NoResult

TransformIdle ==
    /\ embedding = <<>>
    /\ fft = <<>>
    /\ cutoff = -1
    /\ filtered = <<>>
    /\ restored = <<>>
    /\ average = <<>>

NoError == [exception |-> "none", statement |-> "none", doc |-> 0]

NotebookIdle ==
    /\ all_docs = <<>>
    /\ all_labels = <<>>
    /\ apply_lowpass = TRUE
    /\ all_docs_paras = <<>>
    /\ all_embeddings_paras = <<>>
    /\ all_embeddings_paras_fft = <<>>
    /\ all_embeddings_paras_lowpass = <<>>
    /\ train_embeddings_lowpass_avg = <<>>
    /\ provider = <<>>
    /\ provider_calls = <<>>
    /\ error = NoError

notebookVars == <<corpusVars, listVars, provider_calls, error>>

InitSplit ==
    /\ pc = "call"
    /\ text \in TextValues
    /\ segment_length \in SegmentLengthValues
    /\ overlap_percent \in OverlapValues
    /\ result = NoResult
    /\ TransformIdle
    /\ NotebookIdle

CallSplitText ==
    /\ pc = "call"
    /\ result' = split_text(text, segment_length, overlap_percent)
    /\ pc' = "returned"
    /\ UNCHANGED <<text, segment_length, overlap_percent, transformVars,
                   notebookVars>>

NextSplit == CallSplitText

SpecSplit == InitSplit /\ [][NextSplit]_vars

(***************************************************************************)
(* Properties of split_text.                                               *)
(***************************************************************************)
Returned == pc = "returned"

\* the words [lo, hi) of ws (0-based, hi clamped to the word count)
WordsBetween(ws, lo, hi) ==
    [j \in 1..(Min(hi, Len(ws)) - lo) |-> ws[lo + j]]

CeilDiv(a, b) == (a + b - 1) \div b

\* the chunk list the claim describes, for word list ws, window n, stride skip
ChunksAsClaimed(segs, ws, n, skip) ==
    /\ Len(segs) = CeilDiv(Len(ws), skip)
    /\ \A k \in 0..(Len(segs) - 1) :
          segs[k + 1] = StrJoin(WordsBetween(ws, k * skip, k * skip + n))
    /\ \A k \in 0..(Len(segs) - 1) : \A j \in 0..(Len(segs) - 1) :
          (k < j /\ Len(WordsBetween(ws, k * skip, k * skip + n)) < n)
             => Len(WordsBetween(ws, j * skip, j * skip + n)) < n

PositiveInt(s) == s.kind = "int" /\ s.v >= 1

\* overlap_percent lies in [0,1], whatever its Python type
InUnitInterval(o) == 0 <= o.q /\ o.q <= 4

\* C1 as stated: for every string text, positive integer segment_length and
\* overlap_percent in [0,1] with skip >= 1, split_text returns ceil(word_count /
\* skip) chunks, the k-th being words [k*skip, min(k*skip + segment_length,
\* word_count)) joined with single spaces, only trailing chunks being short.
C1_AnyOverlapInUnitInterval ==
    (/\ Returned
     /\ text.kind = "str"
     /\ PositiveInt(segment_length)
     /\ InUnitInterval(overlap_percent)
     /\ Skip(segment_length, overlap_percent) >= 1)
    => /\ result.outcome = "ok"
       /\ ChunksAsClaimed(result.segments, StrSplit(text.chars),
                          segment_length.v,
                          Skip(segment_length, overlap_percent))

\* C1 amended: the same, for overlap_percent a float in [0,1] (the int 0 is
\* rejected by the isinstance check).
C1_SplitTextChunks ==
    (/\ Returned
     /\ text.kind = "str"
     /\ PositiveInt(segment_length)
     /\ overlap_percent.kind = "float"
     /\ InUnitInterval(overlap_percent)
     /\ Skip(segment_length, overlap_percent) >= 1)
    => /\ result.outcome = "ok"
       /\ ChunksAsClaimed(result.segments, StrSplit(text.chars),
                          segment_length.v,
                          Skip(segment_length, overlap_percent))

\* three words, window 2, overlap 0.5: chunks [0,2), [1,3), [2,3)
C1_Witness ==
    /\ Returned
    /\ text.kind = "str" /\ Len(StrSplit(text.chars)) = 3
    /\ segment_length = [kind |-> "int", v |-> 2]
    /\ overlap_percent = [kind |-> "float", q |-> 2]
    /\ result.outcome = "ok"
    /\ Len(result.segments) = 3
    /\ Len(StrSplit(result.segments[1])) = 2
    /\ Len(StrSplit(result.segments[3])) = 1

\* C2: split_text fails with TypeError / ValueError and returns no chunks
\* whenever text is not a string, segment_length is not a positive integer or
\* overlap_percent is outside [0,1]; the error is raised by the parameter
\* checks, before the text is split and before any chunk is built.
C2_InvalidArgumentRejected ==
    (/\ Returned
     /\ \/ text.kind # "str"
        \/ ~PositiveInt(segment_length)
        \/ ~InUnitInterval(overlap_percent))
    => /\ result.outcome \in {"TypeError", "ValueError"}
       /\ result.site = "validation"
       /\ ~result.didSplit
       /\ result.segments = <<>>

\* overlap 1.25 on a text with words and a valid window
C2_Witness ==
    /\ Returned
    /\ text.kind = "str" /\ Len(StrSplit(text.chars)) >= 2
    /\ segment_length = [kind |-> "int", v |-> 2]
    /\ overlap_percent = [kind |-> "float", q |-> 5]
    /\ result.outcome = "ValueError"
    /\ result.site = "validation"

\* C3: an input that passes the parameter checks with skip = 0 makes split_text
\* end with an error (range() refuses a zero step), for every text, the empty
\* text included; no chunk list is returned.
C3_ZeroSkipFails ==
    (/\ Returned
     /\ text.kind = "str"
     /\ PositiveInt(segment_length)
     /\ overlap_percent.kind = "float"
     /\ InUnitInterval(overlap_percent)
     /\ Skip(segment_length, overlap_percent) = 0)
    => /\ result.outcome = "ValueError"
       /\ result.site = "range"
       /\ result.segments = <<>>

\* the empty text with segment_length 1 and overlap 0.5
C3_Witness ==
    /\ Returned
    /\ text = [kind |-> "str", chars |-> <<>>]
    /\ segment_length = [kind |-> "int", v |-> 1]
    /\ overlap_percent = [kind |-> "float", q |-> 2]
    /\ result.outcome = "ValueError"
    /\ result.site = "range"

(***************************************************************************)
(* Exact arithmetic for the transform.  With n_fft = 32 every twiddle      *)
(* factor is a power of z = exp(2*pi*i/32), and z^16 = -1, so a complex    *)
(* coefficient is kept exactly as an integer combination of 1, z, ...,     *)
(* z^15: a function from 0..15 to Int.  These powers are linearly          *)
(* independent over the rationals, so two such values are equal exactly    *)
(* when their coefficients are.  Embedding values are small integers.      *)
(***************************************************************************)
NFft == 32
WinLength == 4
HopLength == WinLength \div 4          \* librosa's default hop
Half == NFft \div 2
Bins == 1 + NFft \div 2                \* rows of the transform: 0..Half
Basis == 0..(Half - 1)

CZero == [i \in Basis |-> 0]

\* c * z^j
CMono(c, j) ==
    LET r == j % NFft
    IN  [i \in Basis |-> IF r = i THEN c ELSE IF r = i + Half THEN -c ELSE 0]

CAdd(a, b) == [i \in Basis |-> a[i] + b[i]]

CScale(c, a) == [i \in Basis |-> c * a[i]]

\* a * z^j
CMulZ(a, j) ==
    LET r == j % NFft
    IN  [i \in Basis |->
            LET s == (i - r) % NFft
            IN  IF s < Half THEN a[s] ELSE -a[s - Half]]

\* complex conjugate
CConj(a) == [i \in Basis |-> IF i = 0 THEN a[0] ELSE -a[Half - i]]

RECURSIVE CSum(_, _, _)
\* f[lo] + ... + f[hi]
CSum(f, lo, hi) == IF lo > hi THEN CZero ELSE CAdd(f[lo], CSum(f, lo + 1, hi))

(***************************************************************************)
(* The window: scipy's periodic Hann window of length 4 is                 *)
(* [0, 0.5, 1, 0.5]; librosa pads it with zeros on both sides to n_fft.    *)
(* HannTwice holds twice the window's values.                              *)
(***************************************************************************)
HannTwice == <<0, 1, 2, 1>>

WindowPad == (NFft - WinLength) \div 2

\* twice the padded window at position m of a frame, m in 0..NFft-1
WindowTwice(m) ==
    IF m >= WindowPad /\ m < WindowPad + WinLength
    THEN HannTwice[m - WindowPad + 1] ELSE 0

\* the frame positions that can carry a nonzero window value
WindowPositions == WindowPad..(WindowPad + WinLength - 1)

\* center=True: the signal y (a sequence) padded with n_fft/2 zeros on both
\* sides, read at position j >= 0
Padded(y, j) ==
    LET p == j - Half
    IN  IF p >= 0 /\ p < Len(y) THEN y[p + 1] ELSE 0

FrameCount(len) == 1 + len \div HopLength

(***************************************************************************)
(* librosa.stft(embedding, n_fft=32, win_length=4) on an N x D array       *)
(* transforms along the last axis: the result has shape                    *)
(* (N, 1 + n_fft/2, 1 + D/hop), indexed here [n][k][t] with n in 1..N,     *)
(* bin k in 0..16 and frame t in 0..D.  Each entry is kept as twice the    *)
(* coefficient (the window is kept doubled).                               *)
(***************************************************************************)
StftEntry(y, k, t) ==
    CSum([m \in WindowPositions |->
             CMono(WindowTwice(m) * Padded(y, t * HopLength + m), -(k * m))],
         WindowPad, WindowPad + WinLength - 1)

get_fft(emb) ==
    [n \in 1..Len(emb) |->
        [k \in 0..(Bins - 1) |->
            [t \in 0..(FrameCount(Len(emb[n])) - 1) |->
                StftEntry(emb[n], k, t)]]]

\* ndarray.shape of a transform: (N, bins, frames)
Shape(a) ==
    <<Len(a), Cardinality(DOMAIN a[1]), Cardinality(DOMAIN a[1][0])>>

(***************************************************************************)
(* lowpass_filter(fft, cutoff): fft.copy(), then every entry whose index   *)
(* on axis 1 is at or past int(cutoff * fft.shape[1]) is set to 0.  The    *)
(* cutoff is a float given in quarters. The operator gives the array the   *)
(* caller passed as it is after the call ("arg") and the value returned    *)
(* ("ret").                                                                *)
(***************************************************************************)
\* first index of the slice a[start:] on an axis of the given size
SliceStart(start, size) ==
    IF start < 0 THEN (IF size + start < 0 THEN 0 ELSE size + start)
    ELSE start

ZeroFromAxis1(a, from) ==
    [n \in DOMAIN a |->
        [k \in DOMAIN a[n] |->
            [t \in DOMAIN a[n][k] |->
                IF k >= from THEN CZero ELSE a[n][k][t]]]]

\* the slice taken on the frame axis (axis 2) instead of axis 1
ZeroFromAxis2(a, from) ==
    [n \in DOMAIN a |->
        [k \in DOMAIN a[n] |->
            [t \in DOMAIN a[n][k] |->
                IF t >= from THEN CZero ELSE a[n][k][t]]]]

lowpass_filter_frame_axis(a, c) ==
    LET from == SliceStart(PyIntQuarters(c * Shape(a)[3]), Shape(a)[3])
    IN  [arg |-> a, ret |-> ZeroFromAxis2(a, from)]

\* the cutoff index taken from the last index instead of the size
lowpass_filter_last_index(a, c) ==
    LET from == SliceStart(PyIntQuarters(c * (Shape(a)[2] - 1)), Shape(a)[2])
    IN  [arg |-> a, ret |-> ZeroFromAxis1(a, from)]

\* the lowest bin always kept
lowpass_filter_keep_dc(a, c) ==
    LET from == SliceStart(PyIntQuarters(c * Shape(a)[2]), Shape(a)[2])
    IN  [arg |-> a, ret |-> ZeroFromAxis1(a, IF from < 1 THEN 1 ELSE from)]

lowpass_filter(a, c) ==
    LET from == SliceStart(PyIntQuarters(c * Shape(a)[2]), Shape(a)[2])
    IN  [arg |-> a, ret |-> ZeroFromAxis1(a, from)]

(***************************************************************************)
(* librosa.istft(fft, win_length=4): n_fft = 2 * (bins - 1), hop 1; each   *)
(* frame is inverted (irfft), multiplied by the window, overlap-added, and *)
(* the sum is divided by the summed squared window where that is not       *)
(* zero; the n_fft/2 padding is cut off both ends.  A restored sample is   *)
(* the exact fraction num / den.                                           *)
(***************************************************************************)
\* 2 * n_fft * (sample m of irfft of frame t): the real part of the bins 0
\* and n_fft/2 once, of the bins between twice
IrfftSample(F, t, m) ==
    CSum([k \in 0..(Bins - 1) |->
             LET term == CMulZ(F[k][t], k * m)
                 both == CAdd(term, CConj(term))
             IN  IF k = 0 \/ k = Bins - 1 THEN both ELSE CScale(2, both)],
         0, Bins - 1)

\* the frames t and positions m that land on padded sample j
Landing(j, frames) ==
    {tm \in (0..(frames - 1)) \X WindowPositions : tm[1] * HopLength + tm[2] = j}

RECURSIVE OverlapAdd(_, _)
OverlapAdd(F, pairs) ==
    IF pairs = {} THEN CZero
    ELSE LET tm == CHOOSE x \in pairs : TRUE
         IN  CAdd(CScale(WindowTwice(tm[2]), IrfftSample(F, tm[1], tm[2])),
                  OverlapAdd(F, pairs \ {tm}))

RECURSIVE WindowSumSquare(_)
\* four times the summed squared window over the landing frames
WindowSumSquare(pairs) ==
    IF pairs = {} THEN 0
    ELSE LET tm == CHOOSE x \in pairs : TRUE
         IN  WindowTwice(tm[2]) * WindowTwice(tm[2])
                + WindowSumSquare(pairs \ {tm})

\* the scale carried by OverlapAdd: 2 (forward window) * 2 * n_fft (irfft)
\* * 2 (inverse window)
OlaScale == 8 * NFft

\* the division by the summed squared window left out
IstftSampleUnnormalised(F, p) ==
    LET frames == Cardinality(DOMAIN F[0])
        pairs == Landing(p + Half, frames)
    IN  [num |-> OverlapAdd(F, pairs), den |-> OlaScale]

IstftSample(F, p) ==
    LET frames == Cardinality(DOMAIN F[0])
        pairs == Landing(p + Half, frames)
        wss4 == WindowSumSquare(pairs)
    IN  IF wss4 > 0
        THEN [num |-> CScale(4, OverlapAdd(F, pairs)), den |-> OlaScale * wss4]
        ELSE [num |-> OverlapAdd(F, pairs), den |-> OlaScale]

fft_to_embedding(a) ==
    [n \in DOMAIN a |->
        [d \in 1..(HopLength * (Cardinality(DOMAIN a[n][0]) - 1)) |->
            IstftSample(a[n], d - 1)]]

(***************************************************************************)
(* np.mean(rows, axis=0) of an N x D array of fractions: per column, the   *)
(* sum of the N entries over N.                                            *)
(***************************************************************************)
FracAdd(x, y) ==
    IF x.den = y.den THEN [num |-> CAdd(x.num, y.num), den |-> x.den]
    ELSE [num |-> CAdd(CScale(y.den, x.num), CScale(x.den, y.num)),
          den |-> x.den * y.den]

RECURSIVE FracSum(_, _, _)
FracSum(rows, d, n) ==
    IF n = 1 THEN rows[1][d] ELSE FracAdd(FracSum(rows, d, n - 1), rows[n][d])

MeanAxis0(rows) ==
    [d \in DOMAIN rows[1] |->
        LET total == FracSum(rows, d, Len(rows))
        IN  [num |-> total.num, den |-> total.den * Len(rows)]]

FracEq(x, y) == CScale(y.den, x.num) = CScale(x.den, y.num)

\* the integer v as a fraction
FracOfInt(v) == [num |-> CMono(v, 0), den |-> 1]

(***************************************************************************)
(* SpecTransform: the transform steps of the notebook on one matrix.       *)
(***************************************************************************)
EmbeddingValues == {0, 1}
Matrices ==
    UNION {[1..n -> [1..d -> EmbeddingValues]] : n \in 1..MaxChunks, d \in 1..MaxDim}
Cutoffs == 0..4                        \* 0.0, 0.25, 0.5, 0.75, 1.0

InitTransform ==
    /\ pc = "embedded"
    /\ embedding \in Matrices
    /\ fft = <<>>
    /\ cutoff = -1
    /\ filtered = <<>>
    /\ restored = <<>>
    /\ average = <<>>
    /\ SplitIdle
    /\ NotebookIdle

GetFft ==
    /\ pc = "embedded"
    /\ fft' = get_fft(embedding)
    /\ pc' = "transformed"
    /\ UNCHANGED <<splitVars, notebookVars, embedding, cutoff, filtered, restored, average>>

\* apply_lowpass = True, with any cutoff
LowpassFilter ==
    /\ pc = "transformed"
    /\ \E c \in Cutoffs :
          LET call == lowpass_filter(fft, c)
          IN  /\ cutoff' = c
              /\ fft' = call.arg
              /\ filtered' = call.ret
    /\ pc' = "filtered"
    /\ UNCHANGED <<splitVars, notebookVars, embedding, restored, average>>

\* the array the inverse transform is given
Spectrum == IF pc = "filtered" THEN filtered ELSE fft

FftToEmbedding ==
    /\ pc \in {"transformed", "filtered"}
    /\ restored' = fft_to_embedding(Spectrum)
    /\ pc' = IF pc = "filtered" THEN "restored_filtered" ELSE "restored_plain"
    /\ UNCHANGED <<splitVars, notebookVars, embedding, fft, cutoff, filtered, average>>

Mean ==
    /\ pc \in {"restored_filtered", "restored_plain"}
    /\ average' = MeanAxis0(restored)
    /\ pc' = IF pc = "restored_filtered" THEN "averaged_filtered"
             ELSE "averaged_plain"
    /\ UNCHANGED <<splitVars, notebookVars, embedding, fft, cutoff, filtered, restored>>

NextTransform == GetFft \/ LowpassFilter \/ FftToEmbedding \/ Mean

SpecTransform == InitTransform /\ [][NextTransform]_vars

(***************************************************************************)
(* Properties of the transform.                                            *)
(***************************************************************************)
AfterFilter == pc \in {"filtered", "restored_filtered", "averaged_filtered"}

\* floor(cutoff * bin_count) for the cutoff in quarters
CutoffBin(c) == (c * Bins) \div 4

SomeEntryNonZero(a, k) ==
    \E n \in DOMAIN a : \E t \in DOMAIN a[n][k] : a[n][k][t] # CZero

\* C4: for the transform get_fft gives of an N x D matrix, lowpass_filter
\* returns an array whose entries at frequency-bin index >= floor(cutoff *
\* bin_count) are zero and whose other entries are the input's, bin_count being
\* the size of the frequency-bin axis (17), not of the frame axis; the array
\* passed in is unchanged by the call.
C4_LowpassZeroesHighBins ==
    pc = "filtered" =>
       /\ Shape(fft) = <<Len(embedding), Bins, Len(embedding[1]) + 1>>
       /\ Shape(filtered) = Shape(fft)
       /\ \A n \in DOMAIN filtered : \A k \in 0..(Bins - 1) :
             \A t \in DOMAIN filtered[n][k] :
                filtered[n][k][t] =
                   IF k >= CutoffBin(cutoff) THEN CZero ELSE fft[n][k][t]
       /\ fft = get_fft(embedding)

\* cutoff 0.5 on a 2 x 2 matrix: bins 8..16 zeroed, bin 7 kept and not zero
C4_Witness ==
    /\ pc = "filtered"
    /\ cutoff = 2
    /\ Len(embedding) = 2 /\ Len(embedding[1]) = 2
    /\ SomeEntryNonZero(fft, 8)
    /\ ~SomeEntryNonZero(filtered, 8)
    /\ SomeEntryNonZero(filtered, 7)

\* C5: lowpass_filter(fft, cutoff=1.0) zeroes no bin and returns an array equal
\* to fft entry for entry, and the run with cutoff 1.0 ends with the average
\* that the unfiltered transform gives (the run without the filter).
C5_CutoffOneIsIdentity ==
    (AfterFilter /\ cutoff = 4) =>
       /\ filtered = fft
       /\ pc = "averaged_filtered" =>
             average = MeanAxis0(fft_to_embedding(fft))

\* a run with cutoff 1.0 whose top bin is not zero, at its average
C5_Witness ==
    /\ pc = "averaged_filtered"
    /\ cutoff = 4
    /\ SomeEntryNonZero(fft, Bins - 1)
    /\ \E d \in DOMAIN average : average[d].num # CZero

\* C6 as stated: lowpass_filter(fft, cutoff=0.0) zeroes every bin above bin 0
\* and retains bin 0.
C6_CutoffZeroKeepsDc ==
    (AfterFilter /\ cutoff = 0) =>
       \A n \in DOMAIN filtered : \A k \in 0..(Bins - 1) :
          \A t \in DOMAIN filtered[n][k] :
             filtered[n][k][t] = IF k >= 1 THEN CZero ELSE fft[n][k][t]

\* C6 amended: lowpass_filter(fft, cutoff=0.0) zeroes every frequency bin, bin
\* 0 included, so the restored sequence and its average are zero everywhere.
C6_CutoffZeroZeroesAll ==
    (AfterFilter /\ cutoff = 0) =>
       /\ \A n \in DOMAIN filtered : \A k \in 0..(Bins - 1) :
             \A t \in DOMAIN filtered[n][k] : filtered[n][k][t] = CZero
       /\ pc \in {"restored_filtered", "averaged_filtered"} =>
             \A n \in DOMAIN restored : \A d \in DOMAIN restored[n] :
                restored[n][d].num = CZero
       /\ pc = "averaged_filtered" =>
             \A d \in DOMAIN average : average[d].num = CZero

\* cutoff 0.0 on a transform whose bin 0 is not zero, after the inverse
C6_Witness ==
    /\ pc = "restored_filtered"
    /\ cutoff = 0
    /\ SomeEntryNonZero(fft, 0)
    /\ ~SomeEntryNonZero(filtered, 0)

\* C7: without the filter, fft_to_embedding(get_fft(x)) has the shape of x and
\* equals x entry for entry.
C7_RoundTrip ==
    pc \in {"restored_plain", "averaged_plain"} =>
       /\ Len(restored) = Len(embedding)
       /\ \A n \in DOMAIN embedding :
             /\ Len(restored[n]) = Len(embedding[n])
             /\ \A d \in DOMAIN embedding[n] :
                   FracEq(restored[n][d], FracOfInt(embedding[n][d]))

\* the round trip of [[1,0],[0,1]]
C7_Witness ==
    /\ pc = "restored_plain"
    /\ embedding = <<(<<1, 0>>), (<<0, 1>>)>>
    /\ FracEq(restored[1][1], FracOfInt(1))
    /\ FracEq(restored[1][2], FracOfInt(0))

(***************************************************************************)
(* The notebook's cells.                                                   *)
(*                                                                         *)
(* The corpus: the trade documents followed by the crude documents, each   *)
(* a non-empty text, with one label per document.  A drawn document of k   *)
(* chunks has 20 * (k - 1) + 1 one-letter words ("t" in a trade document,  *)
(* "c" in a crude one) separated by blanks and line breaks.                *)
(*                                                                         *)
(* The embedding provider is outside the notebook: it answers a list of    *)
(* texts with one vector per text, in order, and the same text always gets *)
(* the same vector; here D = 1 and the vector of a text is drawn per word  *)
(* count of the text.  Any call may fail instead.                          *)
(***************************************************************************)
SegmentLengthArg == 40                 \* split_text(doc, segment_length=40)
DefaultOverlapQuarters == 2            \* overlap_percent=0.5
DefaultCutoffQuarters == 2             \* cutoff=0.5

LetterOf(label) == IF label = "trade" THEN "t" ELSE "c"
TrueLabel(doc) == IF doc[1] = "t" THEN "trade" ELSE "crude"

Stride ==
    Skip([kind |-> "int", v |-> SegmentLengthArg],
         [kind |-> "float", q |-> DefaultOverlapQuarters])

DocText(label, k) ==
    [j \in 1..(2 * (Stride * (k - 1) + 1) - 1) |->
        IF j % 2 = 1 THEN LetterOf(label)
        ELSE IF j % 4 = 0 THEN "\n" ELSE " "]

\* split_text(doc, segment_length=40)
SplitDoc(doc) ==
    split_text([kind |-> "str", chars |-> doc],
               [kind |-> "int", v |-> SegmentLengthArg],
               [kind |-> "float", q |-> DefaultOverlapQuarters])

\* [para for para in paras if para]
NonEmpty(paras) == SelectSeq(paras, LAMBDA para : para # <<>>)

ChunkSizes ==
    UNION {{Len(StrSplit(seg)) :
               seg \in {SplitDoc(DocText("trade", k)).segments[i] :
                           i \in 1..k}} : k \in 1..MaxDocChunks}

\* get_embeddings(texts, engine=...), when the provider answers
get_embeddings(texts) ==
    [j \in 1..Len(texts) |-> <<provider[Len(StrSplit(texts[j]))]>>]

\* np.random.shuffle of the documents alone, the labels left in place
ShuffleDocsOnly(docs, labels, perm) ==
    [docs |-> [i \in 1..Len(docs) |-> docs[perm[i]]], labels |-> labels]

\* combined = list(zip(docs, labels)); shuffle; zip(*combined)
ShuffleTogether(docs, labels, perm) ==
    LET combined == [i \in 1..Len(docs) |-> <<docs[i], labels[i]>>]
        shuffled == [i \in 1..Len(docs) |-> combined[perm[i]]]
    IN  [docs |-> [i \in 1..Len(docs) |-> shuffled[i][1]],
         labels |-> [i \in 1..Len(docs) |-> shuffled[i][2]]]

\* np.allclose(a, b) on two N x D arrays, a of fractions and b of integers
AllClose(a, b) ==
    /\ Len(a) = Len(b)
    /\ \A n \in 1..Len(a) :
          /\ Len(a[n]) = Len(b[n])
          /\ \A d \in 1..Len(a[n]) : FracEq(a[n][d], FracOfInt(b[n][d]))

Abort(exc, stmt, doc) ==
    /\ error' = [exception |-> exc, statement |-> stmt, doc |-> doc]
    /\ pc' = "aborted"

Init ==
    /\ pc = "loaded"
    /\ \E nt \in 0..MaxDocs : \E nc \in 0..(MaxDocs - nt) :
          /\ nt + nc >= 1
          /\ \E trade \in [1..nt -> 1..MaxDocChunks] :
             \E crude \in [1..nc -> 1..MaxDocChunks] :
                /\ all_docs = [i \in 1..nt |-> DocText("trade", trade[i])]
                                 \o [i \in 1..nc |-> DocText("crude", crude[i])]
                /\ all_labels = [i \in 1..nt |-> "trade"]
                                   \o [i \in 1..nc |-> "crude"]
    /\ apply_lowpass \in BOOLEAN
    /\ provider \in [ChunkSizes -> EmbeddingValues]
    /\ all_docs_paras = <<>>
    /\ all_embeddings_paras = <<>>
    /\ all_embeddings_paras_fft = <<>>
    /\ all_embeddings_paras_lowpass = <<>>
    /\ train_embeddings_lowpass_avg = <<>>
    /\ provider_calls = <<>>
    /\ error = NoError
    /\ SplitIdle
    /\ TransformIdle

idleVars == <<splitVars, transformVars>>

\* np.random.seed(42); shuffle docs and labels together
Shuffle ==
    /\ pc = "loaded"
    /\ \E perm \in Permutations(1..Len(all_docs)) :
          LET sh == ShuffleTogether(all_docs, all_labels, perm)
          IN  /\ all_docs' = sh.docs
              /\ all_labels' = sh.labels
    /\ pc' = "shuffled"
    /\ UNCHANGED <<idleVars, apply_lowpass, provider, listVars,
                   provider_calls, error>>

\* train_test_split(X, y, test_size=0.2, random_state=42): the two lists must
\* have the same length n; n_test = ceil(0.2 * n), n_train = n - n_test, and
\* an empty train set is refused
train_test_split(nX, ny) ==
    LET n_test == (nX + 4) \div 5
        n_train == nX - n_test
    IN  IF nX # ny THEN [outcome |-> "ValueError", n_train |-> 0, n_test |-> 0]
        ELSE IF n_train = 0
             THEN [outcome |-> "ValueError", n_train |-> 0, n_test |-> n_test]
             ELSE [outcome |-> "ok", n_train |-> n_train, n_test |-> n_test]

\* the whole-document cell: one provider call on all_docs (one vector per
\* document), then the train/test split and the first classifier, which are
\* given the result and nothing else of the state
BaselineOk ==
    /\ pc = "shuffled"
    /\ provider_calls' = Append(provider_calls, [doc |-> 0, texts |-> all_docs])
    /\ IF train_test_split(Len(all_docs), Len(all_labels)).outcome = "ok"
       THEN pc' = "baseline" /\ UNCHANGED error
       ELSE Abort("ValueError", "train_test_split", 0)
    /\ UNCHANGED <<idleVars, corpusVars, listVars>>

BaselineFail ==
    /\ pc = "shuffled"
    /\ provider_calls' = Append(provider_calls, [doc |-> 0, texts |-> all_docs])
    /\ Abort("ProviderError", "get_embeddings(all_docs)", 0)
    /\ UNCHANGED <<idleVars, corpusVars, listVars>>

FirstFailure(rs) == CHOOSE j \in 1..Len(rs) :
    /\ rs[j].outcome # "ok"
    /\ \A i \in 1..(j - 1) : rs[i].outcome = "ok"

\* all_docs_paras = [split_text(doc, segment_length=40) for doc in all_docs]
SplitDocs ==
    /\ pc = "baseline"
    /\ LET rs == [i \in 1..Len(all_docs) |-> SplitDoc(all_docs[i])]
       IN  IF \E j \in 1..Len(rs) : rs[j].outcome # "ok"
           THEN /\ Abort(rs[FirstFailure(rs)].outcome, "split_text",
                         FirstFailure(rs))
                /\ UNCHANGED all_docs_paras
           ELSE /\ all_docs_paras' = [i \in 1..Len(rs) |-> rs[i].segments]
                /\ pc' = "split"
                /\ UNCHANGED error
    /\ UNCHANGED <<idleVars, corpusVars, all_embeddings_paras,
                   all_embeddings_paras_fft, all_embeddings_paras_lowpass,
                   train_embeddings_lowpass_avg, provider_calls>>

\* remove any empty paragraphs; remove any '' paragraphs
RemoveEmpty ==
    /\ pc = "split"
    /\ all_docs_paras' =
          [i \in 1..Len(all_docs_paras) |-> NonEmpty(NonEmpty(all_docs_paras[i]))]
    /\ pc' = "cleaned"
    /\ UNCHANGED <<idleVars, corpusVars, all_embeddings_paras,
                   all_embeddings_paras_fft, all_embeddings_paras_lowpass,
                   train_embeddings_lowpass_avg, provider_calls, error>>

\* the provider calls of the comprehension below for the documents 1..j
CallsFor(j) == [i \in 1..j |-> [doc |-> i, texts |-> all_docs_paras[i]]]

\* all_embeddings_paras = [get_embeddings(paras, ...) for paras in all_docs_paras]
EmbedParasOk ==
    /\ pc = "cleaned"
    /\ all_embeddings_paras' =
          [i \in 1..Len(all_docs_paras) |-> get_embeddings(all_docs_paras[i])]
    /\ provider_calls' = provider_calls \o CallsFor(Len(all_docs_paras))
    /\ pc' = "embedded_paras"
    /\ UNCHANGED <<idleVars, corpusVars, all_docs_paras,
                   all_embeddings_paras_fft, all_embeddings_paras_lowpass,
                   train_embeddings_lowpass_avg, error>>

\* the call for document j fails: the exception leaves the comprehension
EmbedParasFail ==
    /\ pc = "cleaned"
    /\ \E j \in 1..Len(all_docs_paras) :
          /\ provider_calls' = provider_calls \o CallsFor(j)
          /\ Abort("ProviderError", "get_embeddings(paras)", j)
    /\ UNCHANGED <<idleVars, corpusVars, listVars>>

\* np.array(doc) for each document, then get_fft on each
ApplyFfts ==
    /\ pc = "embedded_paras"
    /\ all_embeddings_paras_fft' =
          [i \in 1..Len(all_embeddings_paras) |-> get_fft(all_embeddings_paras[i])]
    /\ pc' = "transformed_all"
    /\ UNCHANGED <<idleVars, corpusVars, all_docs_paras, all_embeddings_paras,
                   all_embeddings_paras_lowpass, train_embeddings_lowpass_avg,
                   provider_calls, error>>

\* if apply_lowpass: [lowpass_filter(fft) for fft in all_embeddings_paras_fft]
LowpassAll ==
    /\ pc = "transformed_all"
    /\ apply_lowpass
    /\ all_embeddings_paras_fft' =
          [i \in 1..Len(all_embeddings_paras_fft) |->
              lowpass_filter(all_embeddings_paras_fft[i],
                             DefaultCutoffQuarters).ret]
    /\ pc' = "filtered_all"
    /\ UNCHANGED <<idleVars, corpusVars, all_docs_paras, all_embeddings_paras,
                   all_embeddings_paras_lowpass, train_embeddings_lowpass_avg,
                   provider_calls, error>>

\* [fft_to_embedding(fft) for fft in all_embeddings_paras_fft]
IstftAll ==
    /\ \/ pc = "filtered_all"
       \/ pc = "transformed_all" /\ ~apply_lowpass
    /\ all_embeddings_paras_lowpass' =
          [i \in 1..Len(all_embeddings_paras_fft) |->
              fft_to_embedding(all_embeddings_paras_fft[i])]
    /\ pc' = "restored_all"
    /\ UNCHANGED <<idleVars, corpusVars, all_docs_paras, all_embeddings_paras,
                   all_embeddings_paras_fft, train_embeddings_lowpass_avg,
                   provider_calls, error>>

\* if not apply_lowpass: assert np.allclose(...[0], ...[0])
AssertRoundTrip ==
    /\ pc = "restored_all"
    /\ ~apply_lowpass
    /\ IF AllClose(all_embeddings_paras_lowpass[1], all_embeddings_paras[1])
       THEN pc' = "asserted" /\ UNCHANGED error
       ELSE Abort("AssertionError", "assert np.allclose", 1)
    /\ UNCHANGED <<idleVars, corpusVars, listVars, provider_calls>>

\* [np.mean(embeddings, axis=0) for embeddings in all_embeddings_paras_lowpass]
AverageAll ==
    /\ \/ pc = "asserted"
       \/ pc = "restored_all" /\ apply_lowpass
    /\ train_embeddings_lowpass_avg' =
          [i \in 1..Len(all_embeddings_paras_lowpass) |->
              MeanAxis0(all_embeddings_paras_lowpass[i])]
    /\ pc' = "averaged_all"
    /\ UNCHANGED <<idleVars, corpusVars, all_docs_paras, all_embeddings_paras,
                   all_embeddings_paras_fft, all_embeddings_paras_lowpass,
                   provider_calls, error>>

\* train_test_split(train_embeddings_lowpass_avg, all_labels, ...) pairs the
\* two lists index by index, then the second classifier is trained
TrainClassifier ==
    /\ pc = "averaged_all"
    /\ IF train_test_split(Len(train_embeddings_lowpass_avg),
                           Len(all_labels)).outcome = "ok"
       THEN pc' = "done" /\ UNCHANGED error
       ELSE Abort("ValueError", "train_test_split", 0)
    /\ UNCHANGED <<idleVars, corpusVars, listVars, provider_calls>>

Next ==
    \/ Shuffle
    \/ BaselineOk
    \/ BaselineFail
    \/ SplitDocs
    \/ RemoveEmpty
    \/ EmbedParasOk
    \/ EmbedParasFail
    \/ ApplyFfts
    \/ LowpassAll
    \/ IstftAll
    \/ AssertRoundTrip
    \/ AverageAll
    \/ TrainClassifier

Spec == Init /\ [][Next]_vars

(***************************************************************************)
(* Properties of the notebook's run.                                       *)
(***************************************************************************)
HasAggregate(i) == i \in DOMAIN train_embeddings_lowpass_avg

\* C8: an error raised while processing one document is reported for that
\* document only; every other document of the corpus is still processed to
\* its aggregate embedding.
C8_OtherDocumentsAggregated ==
    (pc = "aborted" /\ error.doc >= 1) =>
       \A i \in 1..Len(all_docs) : i # error.doc => HasAggregate(i)

\* the chunks of a document as the notebook makes them
ChunksOfDoc(doc) == NonEmpty(NonEmpty(SplitDoc(doc).segments))

\* fewer chunks than the transform's window length
TooFewChunks(n) == n < WinLength

\* C9: a document whose chunk count is too small for the transform window is
\* rejected before the provider is called for it; no run reaches the embedding
\* call, the forward transform or the averaging step with such a document.
C9_TooFewChunksNeverEmbedded ==
    /\ \A c \in 1..Len(provider_calls) :
          provider_calls[c].doc >= 1
             => ~TooFewChunks(Len(provider_calls[c].texts))
    /\ \A i \in DOMAIN all_embeddings_paras_fft :
          ~TooFewChunks(Len(all_embeddings_paras_fft[i]))
    /\ \A i \in DOMAIN train_embeddings_lowpass_avg :
          ~TooFewChunks(Len(ChunksOfDoc(all_docs[i])))

\* the transform of one document's matrix, filtered when apply_lowpass is set
SpectrumOfDoc(emb) ==
    IF apply_lowpass
    THEN lowpass_filter(get_fft(emb), DefaultCutoffQuarters).ret
    ELSE get_fft(emb)

\* C10: in a completed run the aggregate list has one entry per document, in
\* document order; at every step entry i is made from entry i of the step
\* before and from nothing else (the chunks of document i, sent to the
\* provider in a call of their own, their vectors, their transform, its
\* inverse, its mean), and label i is the label of document i.
C10_AggregatePerDocument ==
    pc = "done" =>
       /\ Len(train_embeddings_lowpass_avg) = Len(all_docs)
       /\ Len(all_labels) = Len(all_docs)
       /\ Len(all_docs_paras) = Len(all_docs)
       /\ Len(all_embeddings_paras) = Len(all_docs)
       /\ Len(all_embeddings_paras_fft) = Len(all_docs)
       /\ Len(all_embeddings_paras_lowpass) = Len(all_docs)
       /\ \A i \in 1..Len(all_docs) :
             /\ all_labels[i] = TrueLabel(all_docs[i])
             /\ all_docs_paras[i] = ChunksOfDoc(all_docs[i])
             /\ \E c \in 1..Len(provider_calls) :
                   provider_calls[c] = [doc |-> i, texts |-> all_docs_paras[i]]
             /\ all_embeddings_paras[i] = get_embeddings(all_docs_paras[i])
             /\ all_embeddings_paras_fft[i]
                   = SpectrumOfDoc(all_embeddings_paras[i])
             /\ all_embeddings_paras_lowpass[i]
                   = fft_to_embedding(all_embeddings_paras_fft[i])
             /\ train_embeddings_lowpass_avg[i]
                   = MeanAxis0(all_embeddings_paras_lowpass[i])

\* a completed run on a crude document followed by a trade document (the
\* shuffle has swapped them) whose aggregates differ
C10_Witness ==
    /\ pc = "done"
    /\ Len(all_docs) = 2
    /\ all_labels = <<"crude", "trade">>
    /\ Len(all_docs_paras[1]) # Len(all_docs_paras[2])
    /\ train_embeddings_lowpass_avg[1] # train_embeddings_lowpass_avg[2]

=============================================================================
